---- MODULE Spec2Model ----
(***************************************************************************)
(* A model of sqlite_parser.py: the file-header validator, the payload     *)
(* reconstructor's byte accounting, and the lazy B-tree range scan         *)
(* (Database._scan_btree_range) as a machine of generator frames that      *)
(* share the page cache's cursors.                                         *)
(***************************************************************************)
EXTENDS Integers, Sequences, FiniteSets, TLC

VARIABLES
    pages,      \* the file's B-tree pages: page index -> parsed page
    scanners,   \* the generators / lookups that exist in this run
    cache,      \* page indexes held by get_btree_page's lru_cache
    cursor,     \* page index -> position of the cached BytesIO of that page
    running,    \* the scanner whose code is executing (0: none, all suspended)
    op,         \* scanner -> the call it was created by
    stack,      \* scanner -> its chain of generator frames (last = innermost)
    status,     \* scanner -> idle / suspended / running / how it ended
    out,        \* scanner -> pairs yielded to the consumer so far
    ret,        \* scanner -> record returned by lookup_row
    fetched,    \* scanner -> pages it asked get_btree_page for, in order
    hitMax,     \* scanner -> an index-interior cell with key >= maxkey was reached
    pay,        \* the payload reconstructor's locals (_parse_payload)
    hdr         \* a file header given to DatabaseHeader.parse, and the outcome

vars == <<pages, scanners, cache, cursor, running, op, stack, status, out,
          ret, fetched, hitMax, pay, hdr>>

-----------------------------------------------------------------------------
(* Bounds of the model.                                                    *)

\* keys and rowids of the one-scanner runs are drawn from 1..MaxKey
MaxKey == 6
\* keys and rowids of the two-scanner runs are drawn from 1..PairMaxKey
PairMaxKey == 7
\* adjacent equal keys allowed in one index tree
MaxDups == 1

-----------------------------------------------------------------------------
(* Keys, and the two sentinels of sentinel.py.  A key is a tagged value:   *)
(* "int" (a rowid), "tuple" (a composite key), "MIN" or "MAX"; v holds the *)
(* integer columns (one for an int).                                       *)

IntKey(n) == [t |-> "int", v |-> <<n>>]
TupleKey(cols) == [t |-> "tuple", v |-> cols]
MIN_SENTINEL == [t |-> "MIN", v |-> <<>>]
MAX_SENTINEL == [t |-> "MAX", v |-> <<>>]

IsMin(x) == x.t = "MIN"
IsMax(x) == x.t = "MAX"

\* Python's tuple (and int) ordering: lexicographic over the columns.
TupleLt(a, b) ==
    \/ \E i \in 1..Len(a) :
          /\ i <= Len(b)
          /\ a[i] < b[i]
          /\ \A j \in 1..(i - 1) : a[j] = b[j]
    \/ /\ Len(a) < Len(b)
       /\ \A j \in 1..Len(a) : a[j] = b[j]

MinSentinel_lt(other) == ~IsMin(other)
MinSentinel_gt(other) == FALSE
MinSentinel_le(other) == TRUE
MinSentinel_ge(other) == IsMin(other)
MaxSentinel_lt(other) == FALSE
MaxSentinel_gt(other) == ~IsMax(other)
MaxSentinel_le(other) == IsMax(other)
MaxSentinel_ge(other) == TRUE

\* a < b as Python evaluates it: a's method; a real key answers
\* NotImplemented to a sentinel, and then the sentinel's reflected method runs.
PyLt(a, b) ==
    IF IsMin(a) THEN MinSentinel_lt(b)
    ELSE IF IsMax(a) THEN MaxSentinel_lt(b)
    ELSE IF IsMin(b) THEN MinSentinel_gt(a)
    ELSE IF IsMax(b) THEN MaxSentinel_gt(a)
    ELSE a.t = b.t /\ TupleLt(a.v, b.v)

PyGt(a, b) ==
    IF IsMin(a) THEN MinSentinel_gt(b)
    ELSE IF IsMax(a) THEN MaxSentinel_gt(b)
    ELSE IF IsMin(b) THEN MinSentinel_lt(a)
    ELSE IF IsMax(b) THEN MaxSentinel_lt(a)
    ELSE a.t = b.t /\ TupleLt(b.v, a.v)

PyLe(a, b) ==
    IF IsMin(a) THEN MinSentinel_le(b)
    ELSE IF IsMax(a) THEN MaxSentinel_le(b)
    ELSE IF IsMin(b) THEN MinSentinel_ge(a)
    ELSE IF IsMax(b) THEN MaxSentinel_ge(a)
    ELSE a.t = b.t /\ (a.v = b.v \/ TupleLt(a.v, b.v))

PyGe(a, b) ==
    IF IsMin(a) THEN MinSentinel_ge(b)
    ELSE IF IsMax(a) THEN MaxSentinel_ge(b)
    ELSE IF IsMin(b) THEN MinSentinel_le(a)
    ELSE IF IsMax(b) THEN MaxSentinel_le(a)
    ELSE a.t = b.t /\ (a.v = b.v \/ TupleLt(b.v, a.v))

-----------------------------------------------------------------------------
(* Pages.  A cell is [left, rowid, rec]; a page keeps its cell pointer     *)
(* array (offsets) and its cell content area (body: offset -> cell).  As   *)
(* SQLite lays cells out from the end of the page backwards, the i-th of n *)
(* cells sits at offset n - i + 1; reading a cell leaves the cursor at the *)
(* next offset.                                                            *)

Cell(left, rowid, rec) == [left |-> left, rowid |-> rowid, rec |-> rec]

MkPage(ptype, cells, right) ==
    [ptype |-> ptype,
     right |-> right,
     offsets |-> [i \in 1..Len(cells) |-> Len(cells) - i + 1],
     body |-> [o \in 1..Len(cells) |-> cells[Len(cells) - o + 1]]]

IdxLeaf(recs) ==
    MkPage("IDX_LEAF", [i \in 1..Len(recs) |-> Cell(0, 0, recs[i])], 0)
IdxInterior(lefts, recs, right) ==
    MkPage("IDX_INTERIOR",
           [i \in 1..Len(recs) |-> Cell(lefts[i], 0, recs[i])], right)
TblLeaf(rows) ==
    MkPage("TBL_LEAF",
           [i \in 1..Len(rows) |-> Cell(0, rows[i][1], <<rows[i][2]>>)], 0)
TblInterior(lefts, right) ==
    MkPage("TBL_INTERIOR",
           [i \in 1..Len(lefts) |-> Cell(lefts[i], 0, <<>>)], right)

\* table_roots[name] of the one table of the file
TableRoot == 2
PageIds == 2..9
\* the names of the generators a run may hold
ScannerIds == {1, 2}

\* Index / WITHOUT ROWID trees over the in-order entries e (records <<key, n>>).
IdxShapeA(e) == 2 :> IdxLeaf(e)
IdxShapeB(e) ==
    2 :> IdxInterior(<<3, 4>>, <<e[2], e[4]>>, 5)
    @@ 3 :> IdxLeaf(<<e[1]>>) @@ 4 :> IdxLeaf(<<e[3]>>) @@ 5 :> IdxLeaf(<<e[5]>>)
IdxShapeC(e) ==
    2 :> IdxInterior(<<3>>, <<e[4]>>, 4)
    @@ 3 :> IdxInterior(<<5>>, <<e[2]>>, 6)
    @@ 4 :> IdxInterior(<<7>>, <<e[6]>>, 8)
    @@ 5 :> IdxLeaf(<<e[1]>>) @@ 6 :> IdxLeaf(<<e[3]>>)
    @@ 7 :> IdxLeaf(<<e[5]>>) @@ 8 :> IdxLeaf(<<e[7]>>)

\* Rowid trees over the rows r (pairs <<rowid, n>>), rowids strictly ascending.
TblShapeA(r) == 2 :> TblLeaf(r)
TblShapeB(r) ==
    2 :> TblInterior(<<3, 4>>, 5)
    @@ 3 :> TblLeaf(<<r[1]>>) @@ 4 :> TblLeaf(<<r[2]>>) @@ 5 :> TblLeaf(<<r[3]>>)
TblShapeC(r) ==
    2 :> TblInterior(<<3>>, 4)
    @@ 3 :> TblInterior(<<5>>, 6)
    @@ 4 :> TblInterior(<<7>>, 8)
    @@ 5 :> TblLeaf(<<r[1]>>) @@ 6 :> TblLeaf(<<r[2]>>)
    @@ 7 :> TblLeaf(<<r[3]>>) @@ 8 :> TblLeaf(<<r[4]>>)

\* Sequences of n keys of 1..hi, each >= prev (a key after prev), with at
\* most d adjacent equal pairs.
RECURSIVE KeySeqs(_, _, _, _)
KeySeqs(n, prev, d, hi) ==
    IF n = 0 THEN {<<>>}
    ELSE UNION { { <<k>> \o t : t \in KeySeqs(n - 1, k, IF k = prev THEN d - 1 ELSE d, hi) } :
                 k \in (IF d > 0 /\ prev >= 1 THEN prev ELSE prev + 1)..hi }

Entries(ks) == [i \in 1..Len(ks) |-> <<ks[i], i>>]

\* well-formed index trees: keys in non-decreasing order, at most d repeated
IdxTrees(hi, d) ==
    { IdxShapeA(Entries(ks)) : ks \in UNION { KeySeqs(n, 0, d, hi) : n \in 0..2 } }
    \cup { IdxShapeB(Entries(ks)) : ks \in KeySeqs(5, 0, d, hi) }
    \cup { IdxShapeC(Entries(ks)) : ks \in KeySeqs(7, 0, d, hi) }
\* well-formed rowid trees: rowids strictly ascending
TblTrees(hi) ==
    { TblShapeA(Entries(ks)) : ks \in UNION { KeySeqs(n, 0, 0, hi) : n \in 0..2 } }
    \cup { TblShapeB(Entries(ks)) : ks \in KeySeqs(3, 0, 0, hi) }
    \cup { TblShapeC(Entries(ks)) : ks \in KeySeqs(4, 0, 0, hi) }

-----------------------------------------------------------------------------
(* The calls.  scan_table and lookup_row both build a generator over       *)
(* _scan_btree_range; lookup_row also runs it to its first pair.           *)

Op(name, nk, minkey, maxkey, key) ==
    [name |-> name, nk |-> nk, minkey |-> minkey, maxkey |-> maxkey, key |-> key]
NoOp == Op("none", 0, MIN_SENTINEL, MAX_SENTINEL, MIN_SENTINEL)

\* len(key) if isinstance(key, tuple) else 0
LookupArity(key) == IF key.t = "tuple" THEN Len(key.v) ELSE 0

RealKeys(hi) == { IntKey(k) : k \in 1..hi } \cup { TupleKey(<<k>>) : k \in 1..hi }
RangeBounds(hi) == { MIN_SENTINEL, MAX_SENTINEL } \cup { TupleKey(<<k>>) : k \in 1..hi }

Frame(page) ==
    [page |-> page, i |-> 1, phase |-> "call",
     key |-> TupleKey(<<>>), value |-> <<>>]

Top(s) == stack[s][Len(stack[s])]
Below(s) == SubSeq(stack[s], 1, Len(stack[s]) - 1)
NumCells(p) == Len(pages[p].offsets)

\* tuple(next(payload) for _ in range(num_key_cols)), tuple(payload)
RecKey(rec, nk) == TupleKey(SubSeq(rec, 1, nk))
RecValue(rec, nk) == SubSeq(rec, nk + 1, Len(rec))

\* a scanner that trusts the position the cursor was left at
SeekSkipped(cur, p, off) == cur

\* page.seek(cell_offset)
SeekTo(cur, p, off) == [cur EXCEPT ![p] = off]

\* The scanner's reads of one cell from the page's cursor: what they decode,
\* and where they leave the cursor.
CellAt(cur, p) ==
    IF cur[p] \in DOMAIN pages[p].body
    THEN pages[p].body[cur[p]]
    ELSE Cell(0, 0, <<>>)
ReadOk(cur, p) == cur[p] \in DOMAIN pages[p].body
AfterRead(cur, p) == [cur EXCEPT ![p] = cur[p] + 1]

\* the cell pointer array walked from its end
CellOffsetReversed(p, k) == pages[p].offsets[NumCells(p) - k + 1]

\* the k-th cell pointer of the page, in the order the loops take them
CellOffset(p, k) == pages[p].offsets[k]

\* the cell whose key equals minkey skipped as well
SkipCellInclusive(key, minkey) == PyLe(key, minkey)
\* the stop test with > in place of >=
StopAtStrict(key, maxkey) == PyGt(key, maxkey)
\* a table leaf that honours the window
TblLeafEmitsInRange(rowid, minkey, maxkey) == PyLe(minkey, rowid) /\ PyLt(rowid, maxkey)

\* line 368: if key < minkey: continue
SkipCell(key, minkey) == PyLt(key, minkey)
\* line 370: if key > minkey: yield from (left child)
DescendLeft(key, minkey) == PyGt(key, minkey)
\* line 374: if key >= maxkey: return
StopAt(key, maxkey) == PyGe(key, maxkey)
\* line 390: if minkey <= key < maxkey
LeafEmits(key, minkey, maxkey) == PyLe(minkey, key) /\ PyLt(key, maxkey)
\* lines 347-354: a table leaf yields every row (no range check)
TblLeafEmits(rowid, minkey, maxkey) == TRUE
\* line 283: if k != key: raise
KeyMatches(k, key) == k = key

-----------------------------------------------------------------------------
(* How a scanner leaves the processor.                                     *)

\* A pair reaches the consumer.  A scan suspends at the yield; lookup_row
\* (lines 275-285) takes the pair as the result of next(), compares its key
\* and drops the generator.
Emit(s, k, v, newstack) ==
    /\ running' = 0
    /\ IF op[s].name = "lookup_row"
       THEN /\ status' = [status EXCEPT ![s] =
                            IF KeyMatches(k, op[s].key) THEN "found" ELSE "KeyNotFound"]
            /\ ret' = [ret EXCEPT ![s] = IF KeyMatches(k, op[s].key) THEN v ELSE <<>>]
            /\ stack' = [stack EXCEPT ![s] = <<>>]
            /\ out' = out
       ELSE /\ status' = [status EXCEPT ![s] = "suspended"]
            /\ out' = [out EXCEPT ![s] = Append(out[s], [k |-> k, v |-> v])]
            /\ stack' = [stack EXCEPT ![s] = newstack]
            /\ ret' = ret

\* An exception unwinds every frame and reaches the caller.
Raise(s, what) ==
    /\ running' = 0
    /\ status' = [status EXCEPT ![s] = what]
    /\ stack' = [stack EXCEPT ![s] = <<>>]
    /\ UNCHANGED <<out, ret>>

\* The scanner goes on running with a new stack.
Continue(s, newstack) ==
    /\ stack' = [stack EXCEPT ![s] = newstack]
    /\ UNCHANGED <<running, status, out, ret>>

-----------------------------------------------------------------------------
(* Calls and resumption.                                                   *)

\* scan_table(name, num_key_cols): builds the generator; nothing runs yet.
scan_table(s, nk) ==
    /\ running = 0 /\ status[s] = "idle"
    /\ op' = [op EXCEPT ![s] = Op("scan_table", nk, MIN_SENTINEL, MAX_SENTINEL, MIN_SENTINEL)]
    /\ stack' = [stack EXCEPT ![s] = <<Frame(TableRoot)>>]
    /\ status' = [status EXCEPT ![s] = "suspended"]
    /\ UNCHANGED <<pages, scanners, cache, cursor, running, out, ret, fetched, hitMax, pay, hdr>>

\* _scan_btree_range(root, nk, minkey, maxkey) called directly.
scan_btree_range(s, nk, minkey, maxkey) ==
    /\ running = 0 /\ status[s] = "idle"
    /\ op' = [op EXCEPT ![s] = Op("scan_range", nk, minkey, maxkey, MIN_SENTINEL)]
    /\ stack' = [stack EXCEPT ![s] = <<Frame(TableRoot)>>]
    /\ status' = [status EXCEPT ![s] = "suspended"]
    /\ UNCHANGED <<pages, scanners, cache, cursor, running, out, ret, fetched, hitMax, pay, hdr>>

\* lookup_row(name, key): builds the generator and calls next() on it at once.
lookup_row(s, key) ==
    /\ running = 0 /\ status[s] = "idle"
    /\ op' = [op EXCEPT ![s] = Op("lookup_row", LookupArity(key), key, MAX_SENTINEL, key)]
    /\ stack' = [stack EXCEPT ![s] = <<Frame(TableRoot)>>]
    /\ status' = [status EXCEPT ![s] = "running"]
    /\ running' = s
    /\ UNCHANGED <<pages, scanners, cache, cursor, out, ret, fetched, hitMax, pay, hdr>>

\* The consumer of a scan asks for the next pair.
Resume(s) ==
    /\ running = 0 /\ status[s] = "suspended"
    /\ running' = s
    /\ status' = [status EXCEPT ![s] = "running"]
    /\ UNCHANGED <<pages, scanners, cache, cursor, op, stack, out, ret, fetched, hitMax, pay, hdr>>

-----------------------------------------------------------------------------
(* The body of _scan_btree_range, one step per page fetch or cell.         *)

\* line 332 and the branch's assert: get_btree_page(idx) fills the cache on a
\* miss (a fresh BytesIO at position 0) and hands out the cached pair.
get_btree_page(s) ==
    /\ running = s /\ stack[s] # <<>> /\ Top(s).phase = "call"
    /\ LET p == Top(s).page
           tbl == pages[p].ptype \in {"TBL_INTERIOR", "TBL_LEAF"}
       IN /\ cache' = cache \cup {p}
          /\ cursor' = IF p \in cache THEN cursor ELSE [cursor EXCEPT ![p] = 0]
          /\ fetched' = [fetched EXCEPT ![s] = Append(fetched[s], p)]
          /\ IF (tbl /\ op[s].nk # 0) \/ (~tbl /\ ~(op[s].nk > 0))
             THEN Raise(s, "AssertionError")
             ELSE Continue(s, Append(Below(s), [Top(s) EXCEPT !.phase = "loop"]))
    /\ UNCHANGED <<pages, scanners, op, hitMax, pay, hdr>>

\* lines 337-342: seek, read the left child, recurse into it.
TblInteriorCell(s) ==
    /\ running = s /\ stack[s] # <<>> /\ Top(s).phase = "loop"
    /\ pages[Top(s).page].ptype = "TBL_INTERIOR"
    /\ Top(s).i <= NumCells(Top(s).page)
    /\ LET p == Top(s).page
           cur == SeekTo(cursor, p, CellOffset(p, Top(s).i))
           cell == CellAt(cur, p)
       IN /\ cursor' = AfterRead(cur, p)
          /\ IF ReadOk(cur, p)
             THEN Continue(s, Append(Below(s), [Top(s) EXCEPT !.i = @ + 1])
                              \o <<Frame(cell.left)>>)
             ELSE Raise(s, "ValueError")
    /\ UNCHANGED <<pages, scanners, cache, op, fetched, hitMax, pay, hdr>>

\* line 343: self._scan_btree_range(hdr.right_ptr) lacks three required
\* arguments; the call raises TypeError before any generator exists.
TblInteriorRight(s) ==
    /\ running = s /\ stack[s] # <<>> /\ Top(s).phase = "loop"
    /\ pages[Top(s).page].ptype = "TBL_INTERIOR"
    /\ Top(s).i > NumCells(Top(s).page)
    /\ Raise(s, "TypeError")
    /\ UNCHANGED <<pages, scanners, cache, cursor, op, fetched, hitMax, pay, hdr>>

\* lines 347-354: seek, read payload length, rowid and payload, yield.
TblLeafCell(s) ==
    /\ running = s /\ stack[s] # <<>> /\ Top(s).phase = "loop"
    /\ pages[Top(s).page].ptype = "TBL_LEAF"
    /\ Top(s).i <= NumCells(Top(s).page)
    /\ LET p == Top(s).page
           cur == SeekTo(cursor, p, CellOffset(p, Top(s).i))
           cell == CellAt(cur, p)
           next == Append(Below(s), [Top(s) EXCEPT !.i = @ + 1])
       IN /\ cursor' = AfterRead(cur, p)
          /\ IF ~ReadOk(cur, p)
             THEN Raise(s, "ValueError")
             ELSE IF TblLeafEmits(IntKey(cell.rowid), op[s].minkey, op[s].maxkey)
             THEN Emit(s, IntKey(cell.rowid), cell.rec, next)
             ELSE Continue(s, next)
    /\ UNCHANGED <<pages, scanners, cache, op, fetched, hitMax, pay, hdr>>

\* the end of a leaf's loop (table or index): the generator returns.
LeafEnd(s) ==
    /\ running = s /\ stack[s] # <<>> /\ Top(s).phase = "loop"
    /\ pages[Top(s).page].ptype \in {"TBL_LEAF", "IDX_LEAF"}
    /\ Top(s).i > NumCells(Top(s).page)
    /\ Continue(s, Below(s))
    /\ UNCHANGED <<pages, scanners, cache, cursor, op, fetched, hitMax, pay, hdr>>

\* lines 374-376 for the cell held in frame f: return, or yield and go on.
StopOrYield(s, f) ==
    /\ hitMax' = [hitMax EXCEPT ![s] = @ \/ PyGe(f.key, op[s].maxkey)]
    /\ IF StopAt(f.key, op[s].maxkey)
       THEN Continue(s, Below(s))
       ELSE Emit(s, f.key, f.value,
                 Append(Below(s), [f EXCEPT !.i = @ + 1, !.phase = "loop"]))

\* lines 357-376: seek, read left child and payload, split key and value,
\* then skip the cell, or descend into the left child, or go to line 374.
IdxInteriorCell(s) ==
    /\ running = s /\ stack[s] # <<>> /\ Top(s).phase = "loop"
    /\ pages[Top(s).page].ptype = "IDX_INTERIOR"
    /\ Top(s).i <= NumCells(Top(s).page)
    /\ LET p == Top(s).page
           cur == SeekTo(cursor, p, CellOffset(p, Top(s).i))
           cell == CellAt(cur, p)
           f == [Top(s) EXCEPT !.key = RecKey(cell.rec, op[s].nk),
                               !.value = RecValue(cell.rec, op[s].nk)]
       IN /\ cursor' = AfterRead(cur, p)
          /\ IF ~ReadOk(cur, p)
             THEN Raise(s, "ValueError") /\ hitMax' = hitMax
             ELSE IF SkipCell(f.key, op[s].minkey)
             THEN Continue(s, Append(Below(s), [Top(s) EXCEPT !.i = @ + 1]))
                  /\ hitMax' = hitMax
             ELSE IF DescendLeft(f.key, op[s].minkey)
             THEN Continue(s, Append(Below(s), [f EXCEPT !.phase = "after_left"])
                              \o <<Frame(cell.left)>>)
                  /\ hitMax' = hitMax
             ELSE StopOrYield(s, f)
    /\ UNCHANGED <<pages, scanners, cache, op, fetched, pay, hdr>>

\* the left child's generator is exhausted: lines 374-376.
IdxInteriorAfterLeft(s) ==
    /\ running = s /\ stack[s] # <<>> /\ Top(s).phase = "after_left"
    /\ StopOrYield(s, Top(s))
    /\ UNCHANGED <<pages, scanners, cache, cursor, op, fetched, pay, hdr>>

\* lines 377-379: after the last cell, recurse into the rightmost child.
IdxInteriorRight(s) ==
    /\ running = s /\ stack[s] # <<>> /\ Top(s).phase = "loop"
    /\ pages[Top(s).page].ptype = "IDX_INTERIOR"
    /\ Top(s).i > NumCells(Top(s).page)
    /\ Continue(s, Append(Below(s), [Top(s) EXCEPT !.phase = "tail"])
                   \o <<Frame(pages[Top(s).page].right)>>)
    /\ UNCHANGED <<pages, scanners, cache, cursor, op, fetched, hitMax, pay, hdr>>

\* the rightmost child's generator is exhausted: the interior one returns.
IdxInteriorDone(s) ==
    /\ running = s /\ stack[s] # <<>> /\ Top(s).phase = "tail"
    /\ Continue(s, Below(s))
    /\ UNCHANGED <<pages, scanners, cache, cursor, op, fetched, hitMax, pay, hdr>>

\* lines 382-391: seek, read the payload, yield it if it is in the window.
IdxLeafCell(s) ==
    /\ running = s /\ stack[s] # <<>> /\ Top(s).phase = "loop"
    /\ pages[Top(s).page].ptype = "IDX_LEAF"
    /\ Top(s).i <= NumCells(Top(s).page)
    /\ LET p == Top(s).page
           cur == SeekTo(cursor, p, CellOffset(p, Top(s).i))
           cell == CellAt(cur, p)
           key == RecKey(cell.rec, op[s].nk)
           next == Append(Below(s), [Top(s) EXCEPT !.i = @ + 1])
       IN /\ cursor' = AfterRead(cur, p)
          /\ IF ~ReadOk(cur, p)
             THEN Raise(s, "ValueError")
             ELSE IF LeafEmits(key, op[s].minkey, op[s].maxkey)
             THEN Emit(s, key, RecValue(cell.rec, op[s].nk), next)
             ELSE Continue(s, next)
    /\ UNCHANGED <<pages, scanners, cache, op, fetched, hitMax, pay, hdr>>

\* The outermost generator is exhausted: StopIteration.  It ends a consumer's
\* loop; in lookup_row it escapes from next() (line 275) to the caller.
Exhausted(s) ==
    /\ running = s /\ stack[s] = <<>> /\ status[s] = "running"
    /\ running' = 0
    /\ status' = [status EXCEPT ![s] =
                    IF op[s].name = "lookup_row" THEN "StopIteration" ELSE "done"]
    /\ UNCHANGED <<pages, scanners, cache, cursor, op, stack, out, ret, fetched, hitMax, pay, hdr>>

-----------------------------------------------------------------------------
(* One scanner, every call.                                                *)

BtInit(trees, who) ==
    /\ pages \in trees
    /\ scanners = who
    /\ cache = {}
    /\ cursor = [p \in PageIds |-> 0]
    /\ running = 0
    /\ op = [s \in who |-> NoOp]
    /\ stack = [s \in who |-> <<>>]
    /\ status = [s \in who |-> "idle"]
    /\ out = [s \in who |-> <<>>]
    /\ ret = [s \in who |-> <<>>]
    /\ fetched = [s \in who |-> <<>>]
    /\ hitMax = [s \in who |-> FALSE]

PayIdle == [pc |-> "idle"]
HdrIdle == [pc |-> "idle"]

Init ==
    /\ BtInit(IdxTrees(MaxKey, MaxDups) \cup TblTrees(MaxKey), {1})
    /\ pay = PayIdle
    /\ hdr = HdrIdle

Next ==
    \/ \E s \in ScannerIds, nk \in 0..2 : s \in scanners /\ scan_table(s, nk)
    \/ \E s \in ScannerIds, key \in RealKeys(MaxKey) : s \in scanners /\ lookup_row(s, key)
    \/ \E s \in ScannerIds, lo \in RangeBounds(MaxKey), hi \in RangeBounds(MaxKey) :
          s \in scanners /\ scan_btree_range(s, 1, lo, hi)
    \/ \E s \in ScannerIds : s \in scanners /\ Resume(s)
    \/ \E s \in ScannerIds : get_btree_page(s)
    \/ \E s \in ScannerIds : TblInteriorCell(s)
    \/ \E s \in ScannerIds : TblInteriorRight(s)
    \/ \E s \in ScannerIds : TblLeafCell(s)
    \/ \E s \in ScannerIds : LeafEnd(s)
    \/ \E s \in ScannerIds : IdxInteriorCell(s)
    \/ \E s \in ScannerIds : IdxInteriorAfterLeft(s)
    \/ \E s \in ScannerIds : IdxInteriorRight(s)
    \/ \E s \in ScannerIds : IdxInteriorDone(s)
    \/ \E s \in ScannerIds : IdxLeafCell(s)
    \/ \E s \in ScannerIds : Exhausted(s)

Spec == Init /\ [][Next]_vars

-----------------------------------------------------------------------------
(* What the file holds: the tree's cells in key order, read off the pages  *)
(* without the scanner.                                                    *)

RECURSIVE InOrderFrom(_, _)
InOrderFrom(p, i) ==
    LET pg == pages[p]
        interior == pg.ptype \in {"IDX_INTERIOR", "TBL_INTERIOR"}
    IN IF i > Len(pg.offsets)
       THEN (IF interior THEN InOrderFrom(pg.right, 1) ELSE <<>>)
       ELSE LET cell == pg.body[pg.offsets[i]]
            IN (IF interior THEN InOrderFrom(cell.left, 1) ELSE <<>>)
               \o (IF pg.ptype = "TBL_INTERIOR" THEN <<>> ELSE <<cell>>)
               \o InOrderFrom(p, i + 1)

IsTbl == pages[TableRoot].ptype \in {"TBL_INTERIOR", "TBL_LEAF"}
IsIdx == ~IsTbl

\* the (key, value) pairs of the tree under key arity nk (0: rowid-keyed)
TreePairs(nk) ==
    LET cells == InOrderFrom(TableRoot, 1)
    IN [i \in 1..Len(cells) |->
          IF nk = 0
          THEN [k |-> IntKey(cells[i].rowid), v |-> cells[i].rec]
          ELSE [k |-> RecKey(cells[i].rec, nk), v |-> RecValue(cells[i].rec, nk)]]

StrictlyAscending(ps) == \A i \in 1..(Len(ps) - 1) : PyGt(ps[i + 1].k, ps[i].k)
HasKey(ps, key) == \E i \in 1..Len(ps) : ps[i].k = key

Ended(s) ==
    status[s] \in {"done", "found", "KeyNotFound", "StopIteration",
                   "TypeError", "AssertionError", "ValueError"}

\* the arity a table of this file is scanned with
ProperArity(nk) == IF IsTbl THEN nk = 0 ELSE nk > 0

-----------------------------------------------------------------------------
(* C1: in a full scan_table of a well-formed tree (keys distinct under the *)
(* key arity the table is scanned with) every emitted key is greater than  *)
(* the key emitted before it.                                              *)
C1_ScanKeysStrictlyAscending ==
    \A s \in scanners :
        (/\ op[s].name = "scan_table"
         /\ ProperArity(op[s].nk)
         /\ StrictlyAscending(TreePairs(op[s].nk)))
        => StrictlyAscending(out[s])

\* a full scan of the three-level index tree has emitted its seven keys
C1_Witness ==
    \E s \in scanners :
        /\ op[s].name = "scan_table" /\ status[s] = "done"
        /\ StrictlyAscending(TreePairs(op[s].nk))
        /\ pages[TableRoot].ptype = "IDX_INTERIOR"
        /\ Len(out[s]) = 7

(* C3: lookup_row with a tuple key that the tree does not hold ends with   *)
(* the not-found error (ValueError "key not found"), wherever the absent   *)
(* key lies and also when the tree is empty.                               *)
C3_AbsentKeyNotFound ==
    \A s \in scanners :
        (/\ op[s].name = "lookup_row" /\ op[s].key.t = "tuple"
         /\ IsIdx /\ Ended(s)
         /\ ~HasKey(TreePairs(op[s].nk), op[s].key))
        => status[s] = "KeyNotFound"

(* C4: a full scan_table of a rowid tree whose root is a table-interior    *)
(* page completes normally and has emitted every row of every leaf.        *)
C4_TableInteriorScanCompletes ==
    \A s \in scanners :
        (/\ op[s].name = "scan_table" /\ op[s].nk = 0
         /\ pages[TableRoot].ptype = "TBL_INTERIOR" /\ Ended(s))
        => (status[s] = "done" /\ out[s] = TreePairs(0))

\* the pairs of ps whose key lies in [minkey, maxkey)
InWindow(pr, minkey, maxkey) == PyLe(minkey, pr.k) /\ PyLt(pr.k, maxkey)
WindowOf(ps, minkey, maxkey) ==
    LET Test(pr) == InWindow(pr, minkey, maxkey) IN SelectSeq(ps, Test)

(* C7: a finished scan_range over a composite-key tree (keys in            *)
(* non-decreasing order, duplicates allowed) has emitted exactly the       *)
(* entries with minkey <= key < maxkey, each once, in tree order.          *)
C7_ScanRangeEmitsWindow ==
    \A s \in scanners :
        (op[s].name = "scan_range" /\ IsIdx /\ status[s] = "done")
        => out[s] = WindowOf(TreePairs(op[s].nk), op[s].minkey, op[s].maxkey)

(* C8: once an index-interior cell with key >= maxkey has been reached     *)
(* (the scanner has come to line 374 with such a cell, at any depth), the  *)
(* traversal emits no further pair and fetches no further page: every      *)
(* enclosing level stops at its current cell.                              *)
C8_StopPropagates ==
    [][\A s \in ScannerIds :
          (s \in scanners /\ hitMax[s])
          => (out'[s] = out[s] /\ fetched'[s] = fetched[s])]_vars

\* the stop happened two levels below the root, and the root fetched nothing more
C8_Witness ==
    \E s \in scanners :
        /\ hitMax[s] /\ status[s] = "done"
        /\ pages[TableRoot].ptype = "IDX_INTERIOR"
        /\ pages[3].ptype = "IDX_INTERIOR"
        /\ fetched[s] = <<2, 3, 5>>

(* C10: lookup_row with a bare integer key on a non-empty rowid table      *)
(* returns the first row of the table iff the key is that row's rowid, and *)
(* fails with the not-found error for every other key.                     *)
C10_RowidLookupFirstRowOnly ==
    \A s \in scanners :
        (/\ op[s].name = "lookup_row" /\ op[s].key.t = "int"
         /\ IsTbl /\ TreePairs(0) # <<>> /\ Ended(s))
        => IF op[s].key = TreePairs(0)[1].k
           THEN status[s] = "found" /\ ret[s] = TreePairs(0)[1].v
           ELSE status[s] = "KeyNotFound"

\* a rowid that the table holds after its first row is reported as not found
C10_Witness ==
    \E s \in scanners :
        /\ op[s].name = "lookup_row" /\ op[s].key.t = "int" /\ IsTbl
        /\ pages[TableRoot].ptype = "TBL_INTERIOR"
        /\ HasKey(TreePairs(0), op[s].key)
        /\ status[s] = "KeyNotFound"

-----------------------------------------------------------------------------
(* Two lazily consumed scans or lookups over the same Database, resumed in *)
(* any order by their consumers.  They share the lru_cache and with it the *)
(* BytesIO of every page.  Every tree has distinct keys, and each call is  *)
(* made with the arity of the tree.                                        *)

InitPair ==
    /\ BtInit(IdxTrees(PairMaxKey, 0) \cup TblTrees(PairMaxKey), {1, 2})
    /\ pay = PayIdle
    /\ hdr = HdrIdle

NextPair ==
    \/ \E s \in ScannerIds, nk \in 0..1 :
          s \in scanners /\ ProperArity(nk) /\ scan_table(s, nk)
    \/ \E s \in ScannerIds, key \in RealKeys(PairMaxKey) :
          s \in scanners /\ ProperArity(LookupArity(key)) /\ lookup_row(s, key)
    \/ \E s \in ScannerIds : s \in scanners /\ Resume(s)
    \/ \E s \in ScannerIds : get_btree_page(s)
    \/ \E s \in ScannerIds : TblInteriorCell(s)
    \/ \E s \in ScannerIds : TblInteriorRight(s)
    \/ \E s \in ScannerIds : TblLeafCell(s)
    \/ \E s \in ScannerIds : LeafEnd(s)
    \/ \E s \in ScannerIds : IdxInteriorCell(s)
    \/ \E s \in ScannerIds : IdxInteriorAfterLeft(s)
    \/ \E s \in ScannerIds : IdxInteriorRight(s)
    \/ \E s \in ScannerIds : IdxInteriorDone(s)
    \/ \E s \in ScannerIds : IdxLeafCell(s)
    \/ \E s \in ScannerIds : Exhausted(s)

SpecPair == InitPair /\ [][NextPair]_vars

-----------------------------------------------------------------------------
(* _scan_btree_range run alone, as a function of the file: the pairs it    *)
(* yields and the exception that ends it ("" when it returns).  Each cell  *)
(* is decoded at its own offset.                                           *)

Res(o, exc) == [out |-> o, exc |-> exc]
Then(r, rest) == IF r.exc # "" THEN r ELSE Res(r.out \o rest.out, rest.exc)

RECURSIVE AloneFrom(_, _, _)
AloneFrom(p, i, o) ==
    LET pg == pages[p]
        n == Len(pg.offsets)
        cell == pg.body[pg.offsets[i]]
        key == RecKey(cell.rec, o.nk)
        pair == [k |-> key, v |-> RecValue(cell.rec, o.nk)]
        row == [k |-> IntKey(cell.rowid), v |-> cell.rec]
    IN IF i = 0
       THEN \* entry of the generator: the assert of the page's branch
            IF pg.ptype \in {"TBL_INTERIOR", "TBL_LEAF"} <=> o.nk = 0
            THEN AloneFrom(p, 1, o)
            ELSE Res(<<>>, "AssertionError")
       ELSE IF pg.ptype = "TBL_INTERIOR"
       THEN IF i > n THEN Res(<<>>, "TypeError")
            ELSE Then(AloneFrom(cell.left, 0, o), AloneFrom(p, i + 1, o))
       ELSE IF pg.ptype = "TBL_LEAF"
       THEN IF i > n THEN Res(<<>>, "")
            ELSE IF TblLeafEmits(row.k, o.minkey, o.maxkey)
            THEN Then(Res(<<row>>, ""), AloneFrom(p, i + 1, o))
            ELSE AloneFrom(p, i + 1, o)
       ELSE IF pg.ptype = "IDX_INTERIOR"
       THEN IF i > n THEN AloneFrom(pg.right, 0, o)
            ELSE IF SkipCell(key, o.minkey) THEN AloneFrom(p, i + 1, o)
            ELSE LET left == IF DescendLeft(key, o.minkey)
                             THEN AloneFrom(cell.left, 0, o)
                             ELSE Res(<<>>, "")
                 IN IF StopAt(key, o.maxkey) THEN left
                    ELSE Then(left, Then(Res(<<pair>>, ""), AloneFrom(p, i + 1, o)))
       ELSE IF i > n THEN Res(<<>>, "")
            ELSE IF LeafEmits(key, o.minkey, o.maxkey)
            THEN Then(Res(<<pair>>, ""), AloneFrom(p, i + 1, o))
            ELSE AloneFrom(p, i + 1, o)

ScanAlone(o) == AloneFrom(TableRoot, 0, o)

\* what the call o ends with when nothing else touches the Database
AloneStatus(o) ==
    LET r == ScanAlone(o)
    IN IF o.name = "lookup_row"
       THEN IF r.out # <<>>
            THEN (IF KeyMatches(r.out[1].k, o.key) THEN "found" ELSE "KeyNotFound")
            ELSE IF r.exc # "" THEN r.exc ELSE "StopIteration"
       ELSE IF r.exc # "" THEN r.exc ELSE "done"
AloneOut(o) == IF o.name = "lookup_row" THEN <<>> ELSE ScanAlone(o).out
AloneRet(o) ==
    LET r == ScanAlone(o)
    IN IF o.name = "lookup_row" /\ r.out # <<>> /\ KeyMatches(r.out[1].k, o.key)
       THEN r.out[1].v ELSE <<>>

IsPrefix(a, b) == Len(a) <= Len(b) /\ a = SubSeq(b, 1, Len(a))

-----------------------------------------------------------------------------
(* C2: for a composite-key tree with distinct keys and every pair (k, v)   *)
(* that a full scan_table has emitted, lookup_row(t, k) returns v.         *)
C2_LookupReturnsScannedValue ==
    \A s \in scanners, t \in scanners :
        (/\ op[s].name = "scan_table" /\ IsIdx
         /\ op[t].name = "lookup_row" /\ Ended(t))
        => \A i \in 1..Len(out[s]) :
              out[s][i].k = op[t].key
              => (status[t] = "found" /\ ret[t] = out[s][i].v)

\* the key was found in the rightmost leaf of the three-level tree
C2_Witness ==
    \E s \in scanners, t \in scanners :
        /\ op[s].name = "scan_table" /\ Len(out[s]) = 7
        /\ op[t].name = "lookup_row" /\ status[t] = "found"
        /\ op[t].key = out[s][7].k /\ ret[t] = out[s][7].v
        /\ fetched[t] = <<2, 4, 8>>

(* C9: however two scans or lookups over the same Database are             *)
(* interleaved, each emits what it emits when run alone: always a prefix   *)
(* of it, and all of it, with the same end, once it has ended.             *)
C9_InterleavingInvisible ==
    \A s \in scanners :
        op[s].name # "none"
        => /\ IsPrefix(out[s], AloneOut(op[s]))
           /\ Ended(s) => /\ status[s] = AloneStatus(op[s])
                          /\ out[s] = AloneOut(op[s])
                          /\ ret[s] = AloneRet(op[s])

\* a scan is suspended in the middle of a page whose shared cursor the other
\* scan has moved since
C9_Witness ==
    \E s \in scanners, t \in scanners :
        /\ s # t /\ status[s] = "suspended" /\ out[s] # <<>> /\ stack[s] # <<>>
        /\ out[t] # <<>>
        /\ pages[Top(s).page].ptype = "IDX_INTERIOR"
        /\ Top(s).i >= 2 /\ Top(s).i <= NumCells(Top(s).page)
        /\ cursor[Top(s).page] # CellOffset(Top(s).page, Top(s).i - 1) + 1

-----------------------------------------------------------------------------
(* The payload reconstructor, Database._parse_payload: how many bytes it   *)
(* takes from the cell's page and from each overflow page.                 *)

\* payloads are tried up to this many overflow pages beyond the first
MaxChain == 2
\* payload lengths are taken this far on either side of each threshold
PayWin == 2
\* reserved bytes per page are taken from 0..MaxRsvd, and the largest one
MaxRsvd == 1
\* the largest value of the one-byte reserved-bytes field
MaxRsvdByte == 255

Min2(a, b) == IF a <= b THEN a ELSE b

\* the page sizes DatabaseHeader.parse lets through
PageSizes == {512, 1024, 2048, 4096, 8192, 16384, 32768, 65536}
PayloadPageTypes == {"TBL_LEAF", "IDX_INTERIOR", "IDX_LEAF"}

\* lines 296-299
PayloadX(U, ptype) ==
    IF ptype = "TBL_LEAF" THEN U - 35 ELSE (((U - 12) * 64) \div 255) - 23
\* line 307
PayloadM(U) == (((U - 12) * 32) \div 255) - 23
\* line 308
PayloadK(U, P) == PayloadM(U) + ((P - PayloadM(U)) % (U - 4))

\* always the K bytes
LocalBytesAlwaysK(K, X, M) == K

\* line 309: bytes_stored_in_leaf_page
LocalBytes(K, X, M) == IF K <= X THEN K ELSE M

\* overflow pages a well-formed file chains to a cell of payload length P
PagesNeeded(U, P, ptype) ==
    IF P <= PayloadX(U, ptype) THEN 0
    ELSE LET rest == P - LocalBytes(PayloadK(U, P), PayloadX(U, ptype), PayloadM(U))
         IN (rest + (U - 4) - 1) \div (U - 4)

\* the payload lengths tried for a page: around 0, M and X, and around both
\* again each further overflow page up
PayloadLens(U, ptype) ==
    { P \in UNION { (b - PayWin)..(b + PayWin) :
                    b \in {0} \cup { t + k * (U - 4) :
                                     t \in {PayloadM(U), PayloadX(U, ptype)},
                                     k \in 0..MaxChain } } :
      P >= 0 }

PayInit ==
    \E ps \in PageSizes, rsvd \in (0..MaxRsvd) \cup {MaxRsvdByte}, pt \in PayloadPageTypes :
        \E P \in PayloadLens(ps - rsvd, pt) :
            \E extra \in 0..1 :
                pay = [pc |-> "start", U |-> ps - rsvd, P |-> P, ptype |-> pt,
                       \* pages in the cell's overflow chain (one too many: a
                       \* chain that does not end where the payload does)
                       chain |-> PagesNeeded(ps - rsvd, P, pt)
                                 + (IF P > PayloadX(ps - rsvd, pt) THEN extra ELSE 0),
                       payload_len |-> P, local |-> 0, overflow_page |-> 0,
                       ovPages |-> 0, ovBytes |-> 0, ovMax |-> 0]

\* lines 301-305: the payload fits; it is read from the page in one piece
PayloadLocal ==
    /\ pay.pc = "start"
    /\ pay.P <= PayloadX(pay.U, pay.ptype)
    /\ pay' = [pay EXCEPT !.pc = "done", !.local = pay.payload_len]
    /\ UNCHANGED <<pages, scanners, cache, cursor, running, op, stack, status, out,
                   ret, fetched, hitMax, hdr>>

\* lines 306-315: the local part, then the first overflow pointer
PayloadSplit ==
    /\ pay.pc = "start"
    /\ pay.P > PayloadX(pay.U, pay.ptype)
    /\ LET n == LocalBytes(PayloadK(pay.U, pay.P), PayloadX(pay.U, pay.ptype),
                           PayloadM(pay.U))
       IN pay' = [pay EXCEPT !.pc = "overflow", !.local = n,
                             !.payload_len = pay.payload_len - n,
                             !.overflow_page = IF pay.chain >= 1 THEN 1 ELSE 0]
    /\ UNCHANGED <<pages, scanners, cache, cursor, running, op, stack, status, out,
                   ret, fetched, hitMax, hdr>>

\* lines 316-325: one overflow page: its next pointer, then its bytes
PayloadOverflowPage ==
    /\ pay.pc = "overflow"
    /\ pay.payload_len # 0
    /\ LET length_to_read == Min2(pay.U - 4, pay.payload_len)
       IN pay' = [pay EXCEPT
                    !.overflow_page = IF pay.overflow_page < pay.chain
                                      THEN pay.overflow_page + 1 ELSE 0,
                    !.payload_len = pay.payload_len - length_to_read,
                    !.ovPages = pay.ovPages + 1,
                    !.ovBytes = pay.ovBytes + length_to_read,
                    !.ovMax = IF length_to_read > pay.ovMax
                              THEN length_to_read ELSE pay.ovMax]
    /\ UNCHANGED <<pages, scanners, cache, cursor, running, op, stack, status, out,
                   ret, fetched, hitMax, hdr>>

\* lines 326-329: the chain must end with the payload
PayloadChainEnd ==
    /\ pay.pc = "overflow"
    /\ pay.payload_len = 0
    /\ pay' = [pay EXCEPT !.pc = IF pay.overflow_page # 0 THEN "ValueError" ELSE "done"]
    /\ UNCHANGED <<pages, scanners, cache, cursor, running, op, stack, status, out,
                   ret, fetched, hitMax, hdr>>

\* no Database scan is part of these runs
BtIdle ==
    /\ pages = <<>>
    /\ scanners = {}
    /\ cache = {}
    /\ cursor = <<>>
    /\ running = 0
    /\ op = <<>>
    /\ stack = <<>>
    /\ status = <<>>
    /\ out = <<>>
    /\ ret = <<>>
    /\ fetched = <<>>
    /\ hitMax = <<>>

InitPayload == BtIdle /\ PayInit /\ hdr = HdrIdle
NextPayload == PayloadLocal \/ PayloadSplit \/ PayloadOverflowPage \/ PayloadChainEnd
SpecPayload == InitPayload /\ [][NextPayload]_vars

(* C5: when the declared length P is at most X, no overflow page is read   *)
(* and P bytes are read locally; when P = X + 1, exactly one overflow page *)
(* is read; whenever the payload overflows, the local byte count lies in   *)
(* [M, X], no overflow page gives more than U - 4 bytes, and local plus    *)
(* overflow bytes are exactly P.                                           *)
C5_PayloadByteAccounting ==
    pay.pc \in {"done", "ValueError"}
    => LET X == PayloadX(pay.U, pay.ptype)
           M == PayloadM(pay.U)
       IN /\ pay.P <= X => (pay.ovPages = 0 /\ pay.local = pay.P)
          /\ pay.P = X + 1 => pay.ovPages = 1
          /\ pay.P > X => /\ M <= pay.local /\ pay.local <= X
                          /\ pay.ovMax <= pay.U - 4
                          /\ pay.local + pay.ovBytes = pay.P

\* a table-leaf payload one byte over the threshold was read from one overflow page
C5_Witness ==
    /\ pay.pc = "done" /\ pay.ptype = "TBL_LEAF"
    /\ pay.P = PayloadX(pay.U, pay.ptype) + 1
    /\ pay.ovPages = 1 /\ pay.local = PayloadM(pay.U)

-----------------------------------------------------------------------------
(* The file header validator, DatabaseHeader.parse, on whole 100-byte      *)
(* headers.                                                                *)

MAX_EMBEDDED_PAYLOAD_FRACTION == 64
MIN_EMBEDDED_PAYLOAD_FRACTION == 32
LEAF_PAYLOAD_FRACTION == 32
\* the largest value of the two-byte page size field
MaxRawPageSize == 65535
\* the reserved bytes of the header
NumReservedBytes == 20
\* specimen headers vary each one-valued field up to this far from its value
FieldSpread == 1

\* int.bit_count()
RECURSIVE BitCount(_)
BitCount(n) == IF n = 0 THEN 0 ELSE (n % 2) + BitCount(n \div 2)

\* the range test without the power-of-two test
PageSizeInvalidRangeOnly(page_size) == page_size < 512 \/ page_size > 32768

\* line 90
PageSizeInvalid(page_size) ==
    page_size < 512 \/ page_size > 32768 \/ BitCount(page_size) # 1

\* TextEncoding(n) raises ValueError for a value that is no member (line 131)
TextEncodings == {1, 2, 3}

ZeroReserved == [i \in 1..NumReservedBytes |-> 0]

\* DatabaseHeader.parse, lines 83-161: the first check that fails raises;
\* otherwise the header object, with the page size normalised.
ParseHeader(h) ==
    IF h.check_magic /\ h.magic # "SQLite format 3"
    THEN [pc |-> "ValueError", why |-> "not a database", page_size |-> 0]
    ELSE IF h.page_size_raw # 1 /\ PageSizeInvalid(h.page_size_raw)
    THEN [pc |-> "ValueError", why |-> "invalid page size", page_size |-> 0]
    ELSE IF h.read_version # 1
    THEN [pc |-> "ValueError", why |-> "unsupported read version", page_size |-> 0]
    ELSE IF h.max_fraction # MAX_EMBEDDED_PAYLOAD_FRACTION
    THEN [pc |-> "ValueError", why |-> "invalid max embedded payload fraction", page_size |-> 0]
    ELSE IF h.min_fraction # MIN_EMBEDDED_PAYLOAD_FRACTION
    THEN [pc |-> "ValueError", why |-> "invalid min embedded payload fraction", page_size |-> 0]
    ELSE IF h.leaf_fraction # LEAF_PAYLOAD_FRACTION
    THEN [pc |-> "ValueError", why |-> "invalid leaf payload fraction", page_size |-> 0]
    ELSE IF h.schema_format # 4
    THEN [pc |-> "ValueError", why |-> "unsupported schema format", page_size |-> 0]
    ELSE IF h.vacuum_thing # 0
    THEN [pc |-> "ValueError", why |-> "unsupported", page_size |-> 0]
    ELSE IF h.text_encoding \notin TextEncodings
    THEN [pc |-> "ValueError", why |-> "not a TextEncoding", page_size |-> 0]
    ELSE IF h.incremental_vacuum # 0
    THEN [pc |-> "ValueError", why |-> "unsupported", page_size |-> 0]
    ELSE IF \E i \in 1..NumReservedBytes : h.rsvd[i] # 0
    THEN [pc |-> "ValueError", why |-> "invalid reserved bytes", page_size |-> 0]
    ELSE [pc |-> "parsed", why |-> "",
          page_size |-> IF h.page_size_raw = 1 THEN 65536 ELSE h.page_size_raw]

Header(cm, mg, ps, wv, rv, mx, mn, lf, sf, vt, te, iv, rs) ==
    [check_magic |-> cm, magic |-> mg, page_size_raw |-> ps, write_version |-> wv,
     read_version |-> rv, max_fraction |-> mx, min_fraction |-> mn,
     leaf_fraction |-> lf, schema_format |-> sf, vacuum_thing |-> vt,
     text_encoding |-> te, incremental_vacuum |-> iv, rsvd |-> rs]

GoodHeader ==
    Header(TRUE, "SQLite format 3", 4096, 1, 1, MAX_EMBEDDED_PAYLOAD_FRACTION,
           MIN_EMBEDDED_PAYLOAD_FRACTION, LEAF_PAYLOAD_FRACTION, 4, 0, 1, 0, ZeroReserved)

Start(h) == [pc |-> "start", in |-> h, why |-> "", page_size |-> 0]

\* Headers given to the parser: every raw page size in an otherwise good
\* header; every position and two values of one non-zero reserved byte; and
\* every combination of a supported and an unsupported value of each field.
InitHeader ==
    /\ BtIdle
    /\ pay = PayIdle
    /\ \/ \E ps \in 0..MaxRawPageSize :
             hdr = Start([GoodHeader EXCEPT !.page_size_raw = ps])
       \/ \E i \in 1..NumReservedBytes, b \in {1, 255} :
             hdr = Start([GoodHeader EXCEPT !.rsvd = [ZeroReserved EXCEPT ![i] = b]])
       \/ \E cm \in BOOLEAN, mg \in {"SQLite format 3", "SQLite format 4"},
             ps \in {1, 512, 513, 32768},
             wv \in 1..(1 + FieldSpread), rv \in 1..(1 + FieldSpread),
             mx \in MAX_EMBEDDED_PAYLOAD_FRACTION..(MAX_EMBEDDED_PAYLOAD_FRACTION + FieldSpread),
             mn \in MIN_EMBEDDED_PAYLOAD_FRACTION..(MIN_EMBEDDED_PAYLOAD_FRACTION + FieldSpread),
             lf \in (LEAF_PAYLOAD_FRACTION - FieldSpread)..LEAF_PAYLOAD_FRACTION,
             sf \in (4 - FieldSpread)..4, vt \in 0..FieldSpread,
             te \in {1, 3, 4}, iv \in 0..FieldSpread,
             rs \in {ZeroReserved, [ZeroReserved EXCEPT ![NumReservedBytes] = 1]} :
             hdr = Start(Header(cm, mg, ps, wv, rv, mx, mn, lf, sf, vt, te, iv, rs))

\* DatabaseHeader.parse(stream, check_magic)
DatabaseHeader_parse ==
    /\ hdr.pc = "start"
    /\ hdr' = [hdr EXCEPT !.pc = ParseHeader(hdr.in).pc,
                          !.why = ParseHeader(hdr.in).why,
                          !.page_size = ParseHeader(hdr.in).page_size]
    /\ UNCHANGED <<pages, scanners, cache, cursor, running, op, stack, status, out,
                   ret, fetched, hitMax, pay>>

NextHeader == DatabaseHeader_parse
SpecHeader == InitHeader /\ [][NextHeader]_vars

\* the page sizes of the format: 65536, written 1, and the powers of two of 512..32768
ValidRawPageSize(ps) == ps = 1 \/ \E e \in 9..15 : ps = 2 ^ e

\* every validated field but the write version holds its supported value
SupportedButWriteVersion(h) ==
    /\ h.check_magic => h.magic = "SQLite format 3"
    /\ ValidRawPageSize(h.page_size_raw)
    /\ h.read_version = 1
    /\ h.max_fraction = 64 /\ h.min_fraction = 32 /\ h.leaf_fraction = 32
    /\ h.vacuum_thing = 0 /\ h.incremental_vacuum = 0
    /\ \A i \in 1..20 : h.rsvd[i] = 0
    /\ h.schema_format = 4

(* C6 as stated: a header is accepted only if every validated field holds  *)
(* its supported value, the write version among them, and an accepted page *)
(* size is a power of two in 512..32768 or 65536.                          *)
C6_AcceptedOnlyIfAllSupported ==
    hdr.pc = "parsed"
    => /\ SupportedButWriteVersion(hdr.in)
       /\ hdr.in.write_version = 1
       /\ hdr.page_size \in { 2 ^ e : e \in 9..16 }

(* C6 as amended: the same, without the write version, which is read and   *)
(* kept but not validated.                                                 *)
C6_AcceptedOnlyIfSupported ==
    hdr.pc = "parsed"
    => /\ SupportedButWriteVersion(hdr.in)
       /\ hdr.page_size \in { 2 ^ e : e \in 9..16 }
       /\ hdr.page_size = 65536 <=> hdr.in.page_size_raw = 1

\* a header with raw page size 1 was accepted with page size 65536
C6_Witness ==
    /\ hdr.pc = "parsed" /\ hdr.in.page_size_raw = 1 /\ hdr.page_size = 65536
    /\ hdr.in.check_magic

====
